---- MODULE Spec2Model ----
(***************************************************************************)
(* Kelemetry trace server, pkg/frontend/http/trace/server.go.              *)
(*                                                                         *)
(* One request to GET /extensions/api/v1/trace is followed through the     *)
(* handler registered by server.Init, server.handleTrace, server.findTrace *)
(* and pruneTrace.  The span reader (FindTraces, GetTrace) and the cluster *)
(* list are the environment: what they return is chosen when the call      *)
(* returns.                                                                *)
(*                                                                         *)
(* Strings are TLA+ strings, except cluster names, which are sequences of  *)
(* one-letter strings so that letter case can be folded.  An instant is    *)
(* [sec, nsec]: seconds since the zero time (January 1, year 1, UTC) and   *)
(* nanoseconds within the second, as time.Time keeps them.                 *)
(***************************************************************************)
EXTENDS Integers, Sequences, FiniteSets, TLC

VARIABLES
    pc,            \* position of the request in the handler
    request,       \* the request as received: its query string
    query,         \* traceQuery bound from the request
    reqCancelled,  \* the caller's request context is done
    metricError,   \* requestMetric.Error label ("" when unset)
    knownClusters, \* the listing clusterList.List() returned
    timestamp,     \* result of time.Parse
    params,        \* spanstore.TraceQueryParameters handed to FindTraces
    storeCalls,    \* calls the span reader has observed, in order
    storeMatches,  \* traces in the store that satisfy params
    traces,        \* what FindTraces returned
    findErr,       \* err FindTraces returned
    getErr,        \* err GetTrace returned
    located,       \* trace returned by findTrace
    fetched,       \* trace returned by GetTrace
    trace,         \* handleTrace's working trace
    status,        \* HTTP status written (0: none)
    body           \* response body written

vars == <<pc, request, query, reqCancelled, metricError, knownClusters, timestamp,
          params, storeCalls, storeMatches, traces, findErr, getErr, located,
          fetched, trace, status, body>>

-----------------------------------------------------------------------------
(* Bounds of the model *)

MaxClusterLen == 2
MaxRegistry == 2
MaxTraces == 2
MaxSpans == 2
MaxLogs == 2
MaxSec == 1900

-----------------------------------------------------------------------------
(* Values *)

NilTrace == [isNil |-> TRUE]
NoParams == [isNil |-> TRUE]
NoBody == [kind |-> "none"]
ZeroTime == [sec |-> 0, nsec |-> 0]

Letters == {"a", "A", "b"}

RECURSIVE StringsUpTo(_, _)
StringsUpTo(S, n) ==
    IF n = 0 THEN {<<>>}
    ELSE LET shorter == StringsUpTo(S, n - 1)
         IN  shorter \cup {Append(s, c) : s \in shorter, c \in S}

-----------------------------------------------------------------------------
(* strings.ToLower and strings.EqualFold on cluster names *)

LowerChar(c) == IF c = "A" THEN "a" ELSE IF c = "B" THEN "b" ELSE c

ToLower(s) == [i \in 1..Len(s) |-> LowerChar(s[i])]

\* EqualFold walks both strings rune by rune; two runes match when they are
\* equal or are the upper and lower case of one letter; the strings must end
\* together.
FoldsTo(sr, tr) == sr = tr \/ LowerChar(sr) = tr \/ LowerChar(tr) = sr

RECURSIVE EqualFold(_, _)
EqualFold(s, t) ==
    IF s = <<>> \/ t = <<>> THEN s = t
    ELSE IF FoldsTo(Head(s), Head(t)) THEN EqualFold(Tail(s), Tail(t))
    ELSE FALSE

\* Variant: the entry is compared with the cluster as written, case and all.
ClusterMatches_CaseSensitive(knownCluster, cluster) == knownCluster = cluster

\* The comparison of one registry entry with the requested cluster.
ClusterMatches(knownCluster, cluster) ==
    EqualFold(ToLower(knownCluster), ToLower(cluster))

\* for _, knownCluster := range List() { if ... { hasCluster = true } }
RECURSIVE HasCluster(_, _, _)
HasCluster(list, cluster, hasCluster) ==
    IF list = <<>> THEN hasCluster
    ELSE HasCluster(Tail(list), cluster,
                    IF ClusterMatches(Head(list), cluster) THEN TRUE ELSE hasCluster)

-----------------------------------------------------------------------------
(* time.Parse(time.RFC3339, ts), Time.Truncate and Time.Add *)

Nanos == 1000 * 1000 * 1000

\* time.Minute * 30, in seconds
ThirtyMinutes == 1800

\* A ts parameter is text: either not RFC 3339, or a local date and time of
\* day (here already counted in seconds since the zero time) with a zone
\* offset in seconds.  Parsing subtracts the offset to get the instant.
ParseOk(ts) == ts.valid

ParseRFC3339(ts) == [sec |-> ts.local.sec - ts.offset, nsec |-> ts.local.nsec]

\* Time.Add of a whole number of seconds and of nanoseconds (either sign,
\* |nsec| below one second), normalised to 0 <= nsec < 1e9.
AddTime(t, dsec, dnsec) ==
    LET n == t.nsec + dnsec
    IN  IF n < 0 THEN [sec |-> t.sec + dsec - 1, nsec |-> n + Nanos]
        ELSE IF n >= Nanos THEN [sec |-> t.sec + dsec + 1, nsec |-> n - Nanos]
        ELSE [sec |-> t.sec + dsec, nsec |-> n]

\* Variant: the remainder of the absolute value, without the correction for
\* instants before the zero time (rounds toward the zero time).
DivRemainder_TowardZero(t, d1) ==
    LET neg == t.sec < 0
        sec0 == IF neg THEN -t.sec ELSE t.sec
        nsec0 == IF neg THEN -t.nsec ELSE t.nsec
        sec == IF nsec0 < 0 THEN sec0 - 1 ELSE sec0
        nsec == IF nsec0 < 0 THEN nsec0 + Nanos ELSE nsec0
    IN  [sec |-> sec % d1, nsec |-> nsec]

\* The remainder r of time.div(t, d) for d a multiple of one second (d1 = d/1e9
\* seconds), as [sec, nsec]:
\*     if sec < 0 { neg = true; sec = -sec; nsec = -nsec
\*                  if nsec < 0 { nsec += 1e9; sec-- } }
\*     r = (sec % d1)*1e9 + nsec
\*     if neg && r != 0 { r = d - r }
DivRemainder(t, d1) ==
    LET neg == t.sec < 0
        sec0 == IF neg THEN -t.sec ELSE t.sec
        nsec0 == IF neg THEN -t.nsec ELSE t.nsec
        sec == IF nsec0 < 0 THEN sec0 - 1 ELSE sec0
        nsec == IF nsec0 < 0 THEN nsec0 + Nanos ELSE nsec0
        rsec == sec % d1
    IN  IF neg /\ (rsec # 0 \/ nsec # 0)
        THEN IF nsec = 0 THEN [sec |-> d1 - rsec, nsec |-> 0]
             ELSE [sec |-> d1 - rsec - 1, nsec |-> Nanos - nsec]
        ELSE [sec |-> rsec, nsec |-> nsec]

\* func (t Time) Truncate(d Duration) Time { _, r := div(t, d); return t.Add(-r) }
Truncate(t, d1) ==
    LET r == DivRemainder(t, d1)
    IN  AddTime(t, -r.sec, -r.nsec)

TimeLess(a, b) == a.sec < b.sec \/ (a.sec = b.sec /\ a.nsec < b.nsec)

TimeLeq(a, b) == a = b \/ TimeLess(a, b)

-----------------------------------------------------------------------------
(* Traces, spans and logs *)

\* model.KeyValues.FindByKey: the first field with the key, if any.  A log's
\* Fields are kept as the sequence of their keys.
RECURSIVE FindByKey(_, _)
FindByKey(fields, key) ==
    IF fields = <<>> THEN FALSE
    ELSE IF Head(fields) = key THEN TRUE
    ELSE FindByKey(Tail(fields), key)

\* Variant: a kept log is put in front of the logs kept so far.
RECURSIVE KeepLogs_Prepend(_, _, _)
KeepLogs_Prepend(logs, spanType, newLogs) ==
    IF logs = <<>> THEN newLogs
    ELSE KeepLogs_Prepend(Tail(logs), spanType,
                          IF FindByKey(Head(logs).Fields, spanType)
                          THEN <<Head(logs)>> \o newLogs
                          ELSE newLogs)

\* for _, log := range span.Logs { if ok { newLogs = append(newLogs, log) } }
RECURSIVE KeepLogs(_, _, _)
KeepLogs(logs, spanType, newLogs) ==
    IF logs = <<>> THEN newLogs
    ELSE KeepLogs(Tail(logs), spanType,
                  IF FindByKey(Head(logs).Fields, spanType)
                  THEN Append(newLogs, Head(logs))
                  ELSE newLogs)

pruneTrace(t, spanType) ==
    IF spanType = "" THEN t
    ELSE [t EXCEPT !.Spans =
            [i \in 1..Len(t.Spans) |->
                [t.Spans[i] EXCEPT !.Logs = KeepLogs(t.Spans[i].Logs, spanType, <<>>)]]]

\* hasLogs := false; for _, span := range trace.Spans { if len(span.Logs) > 0 { hasLogs = true } }
RECURSIVE HasLogs(_, _)
HasLogs(spans, hasLogs) ==
    IF spans = <<>> THEN hasLogs
    ELSE HasLogs(Tail(spans), IF Len(Head(spans).Logs) > 0 THEN TRUE ELSE hasLogs)

\* Variant: only the first span is inspected for logs.
NeedsRefetch_FirstSpanOnly(t) == Len(t.Spans) > 0 /\ Len(t.Spans[1].Logs) = 0

\* if !hasLogs && len(trace.Spans) > 0
NeedsRefetch(t) == ~HasLogs(t.Spans, FALSE) /\ Len(t.Spans) > 0

\* Variant: the trace ID of the last span.
RefetchID_LastSpan(t) == t.Spans[Len(t.Spans)].TraceID

\* trace.Spans[0].TraceID
RefetchID(t) == t.Spans[1].TraceID

\* uiconv.FromDomain followed by ctx.JSON(200, uiTrace): the document written
\* carries the spans of the trace it was made from.
JSONBody(t) == [kind |-> "json", doc |-> t.Spans]

ErrorBody(msg) == [kind |-> "error", msg |-> msg]

-----------------------------------------------------------------------------
(* Inputs: requests, registry listings, store contents *)

Clusters == StringsUpTo(Letters, MaxClusterLen)

RegistryNames == {<<"a">>, <<"A", "b">>}

Listings == StringsUpTo(RegistryNames, MaxRegistry)

BadTs == [valid |-> FALSE, local |-> ZeroTime, offset |-> 0]

\* 0001-01-01T00:35:00Z
SampleTs == [valid |-> TRUE, local |-> [sec |-> 35 * 60, nsec |-> 0], offset |-> 0]

ZeroQuery ==
    [Cluster |-> <<>>, Resource |-> "", Namespace |-> "", Name |-> "",
     Ts |-> BadTs, SpanType |-> ""]

Queries ==
    [Cluster : Clusters, Resource : {"", "pods"}, Namespace : {"", "default"},
     Name : {"", "foo"}, Ts : {BadTs, SampleTs}, SpanType : {"", "audit", "event"}]

\* A query string gin cannot bind, or one it binds to the given fields.
Requests ==
    {[bindable |-> FALSE, form |-> ZeroQuery]}
        \cup {[bindable |-> TRUE, form |-> q] : q \in Queries}

LogAudit == [Fields |-> <<"audit">>]
LogEvent == [Fields |-> <<"event">>]
LogBoth == [Fields |-> <<"event", "audit">>]
LogUniverse == {LogAudit, LogEvent, LogBoth}

EmptyTrace == [Spans |-> <<>>]

ShallowTrace ==
    [Spans |-> <<[TraceID |-> 1, Logs |-> <<>>], [TraceID |-> 2, Logs |-> <<>>]>>]

PartialTrace ==
    [Spans |-> <<[TraceID |-> 2, Logs |-> <<>>],
                 [TraceID |-> 2, Logs |-> <<LogBoth>>]>>]

FullTrace ==
    [Spans |-> <<[TraceID |-> 1, Logs |-> <<LogAudit, LogEvent, LogBoth>>],
                 [TraceID |-> 1, Logs |-> <<LogEvent>>]>>]

SampleTraces == {EmptyTrace, ShallowTrace, PartialTrace, FullTrace}

\* What FindTraces can hand back: up to MaxTraces traces.
TraceSeqs == StringsUpTo(SampleTraces, MaxTraces)

\* A store call made with a context that is done fails with that context's
\* error; otherwise it succeeds or fails for reasons of the store's own.
CtxDone(ctx) == ctx = "Request" /\ reqCancelled

StoreErrs(ctx) == IF CtxDone(ctx) THEN {"context canceled"} ELSE {"", "unavailable"}

LastCall == storeCalls[Len(storeCalls)]

-----------------------------------------------------------------------------
(* The request handler *)

Init ==
    /\ pc = "idle"
    /\ request = [bindable |-> FALSE, form |-> ZeroQuery]
    /\ query = ZeroQuery
    /\ reqCancelled = FALSE
    /\ metricError = ""
    /\ knownClusters = <<>>
    /\ timestamp = ZeroTime
    /\ params = NoParams
    /\ storeCalls = <<>>
    /\ storeMatches = <<>>
    /\ traces = <<>>
    /\ findErr = ""
    /\ getErr = ""
    /\ located = NilTrace
    /\ fetched = NilTrace
    /\ trace = NilTrace
    /\ status = 0
    /\ body = NoBody

\* The handler's error branch, with the label the failing code put in the
\* metric: ctx.Status(code); WriteString(err.Error()); ctx.Abort().
Fail(code, label, msg) ==
    /\ metricError' = label
    /\ status' = code
    /\ body' = ErrorBody(msg)
    /\ pc' = "done"

\* A request arrives; the handler starts with a fresh metric and an empty
\* traceQuery.
HandleRequest ==
    /\ pc = "idle"
    /\ \E r \in Requests : request' = r
    /\ pc' = "bind"
    /\ UNCHANGED <<query, reqCancelled, metricError, knownClusters, timestamp,
                   params, storeCalls, storeMatches, traces, findErr, getErr, located,
                   fetched, trace, status, body>>

\* The handler returns (the deferred metric count runs); nothing of the
\* request is kept.
Return ==
    /\ pc = "done"
    /\ pc' = "idle"
    /\ request' = [bindable |-> FALSE, form |-> ZeroQuery]
    /\ query' = ZeroQuery
    /\ reqCancelled' = FALSE
    /\ metricError' = ""
    /\ knownClusters' = <<>>
    /\ timestamp' = ZeroTime
    /\ params' = NoParams
    /\ storeCalls' = <<>>
    /\ storeMatches' = <<>>
    /\ traces' = <<>>
    /\ findErr' = ""
    /\ getErr' = ""
    /\ located' = NilTrace
    /\ fetched' = NilTrace
    /\ trace' = NilTrace
    /\ status' = 0
    /\ body' = NoBody

\* The caller goes away while the request is being handled.
Cancel ==
    /\ pc \notin {"idle", "done"}
    /\ ~reqCancelled
    /\ reqCancelled' = TRUE
    /\ UNCHANGED <<pc, request, query, metricError, knownClusters, timestamp,
                   params, storeCalls, storeMatches, traces, findErr, getErr, located,
                   fetched, trace, status, body>>

\* err = ctx.BindQuery(&query)
BindQuery ==
    /\ pc = "bind"
    /\ IF request.bindable
       THEN /\ query' = request.form
            /\ pc' = "checkEmpty"
            /\ UNCHANGED <<metricError, status, body>>
       ELSE /\ Fail(400, "InvalidParam", "invalid param")
            /\ UNCHANGED query
    /\ UNCHANGED <<request, reqCancelled, knownClusters, timestamp, params,
                   storeCalls, storeMatches, traces, findErr, getErr, located, fetched,
                   trace>>

\* if len(cluster) == 0 || len(resource) == 0 || len(name) == 0
EmptyParam(q) == Len(q.Cluster) = 0 \/ q.Resource = "" \/ q.Name = ""

CheckEmpty ==
    /\ pc = "checkEmpty"
    /\ IF EmptyParam(query)
       THEN Fail(400, "EmptyParam", "cluster or resource or name is empty")
       ELSE /\ pc' = "checkCluster"
            /\ UNCHANGED <<metricError, status, body>>
    /\ UNCHANGED <<request, query, reqCancelled, knownClusters, timestamp,
                   params, storeCalls, storeMatches, traces, findErr, getErr, located,
                   fetched, trace>>

\* The registry is listed and searched for the cluster.
CheckCluster ==
    /\ pc = "checkCluster"
    /\ \E list \in Listings :
        /\ knownClusters' = list
        /\ IF ~HasCluster(list, query.Cluster, FALSE)
           THEN Fail(404, "UnknownCluster", "cluster not supported now")
           ELSE /\ pc' = "parseTs"
                /\ UNCHANGED <<metricError, status, body>>
    /\ UNCHANGED <<request, query, reqCancelled, timestamp, params, storeCalls,
                   storeMatches, traces, findErr, getErr, located, fetched, trace>>

\* The FindTraces call as the store sees it.
FindTracesCall(p) == [op |-> "FindTraces", ctx |-> "Background", arg |-> p]

\* The GetTrace call as the store sees it.
GetTraceCall(id) == [op |-> "GetTrace", ctx |-> "Background", arg |-> id]

\* Variant: the store is queried before the parse error is looked at.
ParseTs_AfterQuery ==
    /\ pc = "parseTs"
    /\ IF ~ParseOk(query.Ts)
       THEN /\ storeCalls' = Append(storeCalls, FindTracesCall(params))
            /\ Fail(400, "InvalidTimestamp", "invalid timestamp for ts param")
            /\ UNCHANGED timestamp
       ELSE /\ timestamp' = ParseRFC3339(query.Ts)
            /\ pc' = "buildQuery"
            /\ UNCHANGED <<metricError, status, body, storeCalls>>
    /\ UNCHANGED <<request, query, reqCancelled, knownClusters, params,
                   storeMatches, traces, findErr, getErr, located, fetched, trace>>

\* timestamp, err := time.Parse(time.RFC3339, query.Ts)
ParseTs ==
    /\ pc = "parseTs"
    /\ IF ~ParseOk(query.Ts)
       THEN /\ Fail(400, "InvalidTimestamp", "invalid timestamp for ts param")
            /\ UNCHANGED timestamp
       ELSE /\ timestamp' = ParseRFC3339(query.Ts)
            /\ pc' = "buildQuery"
            /\ UNCHANGED <<metricError, status, body>>
    /\ UNCHANGED <<request, query, reqCancelled, knownClusters, params,
                   storeCalls, storeMatches, traces, findErr, getErr, located, fetched,
                   trace>>

\* tags := map[string]string{...}; if namespace != "" { tags["namespace"] = namespace }
Tags(q) ==
    IF q.Namespace # ""
    THEN [resource |-> q.Resource, name |-> q.Name, namespace |-> q.Namespace]
    ELSE [resource |-> q.Resource, name |-> q.Name]

TraceQueryParameters(serviceName, q, ts) ==
    [ServiceName |-> serviceName,
     OperationName |-> q.Cluster,
     Tags |-> Tags(q),
     StartTimeMin |-> Truncate(ts, ThirtyMinutes),
     StartTimeMax |-> AddTime(Truncate(ts, ThirtyMinutes), ThirtyMinutes, 0)]

\* The parameters are built and FindTraces is called; the call is in flight.
CallFindTraces ==
    /\ pc = "buildQuery"
    /\ params' = TraceQueryParameters("tracing (exclusive)", query, timestamp)
    /\ storeCalls' = Append(storeCalls, FindTracesCall(params'))
    /\ pc' = "findTraces"
    /\ UNCHANGED <<request, query, reqCancelled, metricError, knownClusters,
                   timestamp, storeMatches, traces, findErr, getErr, located, fetched,
                   trace, status, body>>

\* Variant: several matches are resolved by taking the first.
FindResult_PicksFirst(err, ts) ==
    IF err # ""
    THEN [trace |-> NilTrace, code |-> 500, label |-> "TraceError",
          msg |-> "failed to find trace ids"]
    ELSE IF Len(ts) = 0
    THEN [trace |-> NilTrace, code |-> 404, label |-> "NoTraceMatch",
          msg |-> "could not find trace ids that match query"]
    ELSE [trace |-> ts[1], code |-> 200, label |-> "", msg |-> ""]

\* What findTrace returns once FindTraces has answered.
FindResult(err, ts) ==
    IF err # ""
    THEN [trace |-> NilTrace, code |-> 500, label |-> "TraceError",
          msg |-> "failed to find trace ids"]
    ELSE IF Len(ts) > 1
    THEN [trace |-> NilTrace, code |-> 500, label |-> "MultiTraceMatch",
          msg |-> "trace ids match query length is not 1"]
    ELSE IF Len(ts) = 0
    THEN [trace |-> NilTrace, code |-> 404, label |-> "NoTraceMatch",
          msg |-> "could not find trace ids that match query"]
    ELSE [trace |-> ts[1], code |-> 200, label |-> "", msg |-> ""]

\* FindTraces answers; findTrace returns and handleTrace takes its result.
FindTracesReturn ==
    /\ pc = "findTraces"
    /\ \E matches \in TraceSeqs, err \in StoreErrs(LastCall.ctx) :
        /\ storeMatches' = matches
        /\ findErr' = err
        /\ traces' = IF err # "" THEN <<>> ELSE matches
        /\ LET r == FindResult(err, traces')
           IN  /\ located' = r.trace
               /\ trace' = r.trace
               /\ IF r.label # ""
                  THEN Fail(r.code, r.label, r.msg)
                  ELSE /\ pc' = "checkLogs"
                       /\ UNCHANGED <<metricError, status, body>>
    /\ UNCHANGED <<request, query, reqCancelled, knownClusters, timestamp,
                   params, storeCalls, getErr, fetched>>

\* Variant: the fetched trace is inspected for logs again.
AfterRefetch_Recheck == "checkLogs"

\* Where handleTrace goes once GetTrace has returned a trace: on to pruning.
AfterRefetch == "prune"

\* The spans are inspected for logs; a trace with spans and no log is fetched
\* again by the first span's trace ID.
CheckLogs ==
    /\ pc = "checkLogs"
    /\ IF NeedsRefetch(trace)
       THEN /\ storeCalls' = Append(storeCalls, GetTraceCall(RefetchID(trace)))
            /\ pc' = "getTrace"
       ELSE /\ pc' = "prune"
            /\ UNCHANGED storeCalls
    /\ UNCHANGED <<request, query, reqCancelled, metricError, knownClusters,
                   timestamp, params, storeMatches, traces, findErr, getErr, located,
                   fetched, trace, status, body>>

\* Variant: the GetTrace error is recorded but handleTrace does not return.
GetTraceReturn_NoReturn ==
    /\ pc = "getTrace"
    /\ \E t \in SampleTraces, err \in StoreErrs(LastCall.ctx) :
        /\ getErr' = err
        /\ fetched' = IF err # "" THEN NilTrace ELSE t
        /\ IF err # ""
           THEN /\ metricError' = "TraceError"
                /\ status' = 200
                /\ body' = JSONBody(pruneTrace(trace, query.SpanType))
                /\ pc' = "done"
                /\ UNCHANGED trace
           ELSE /\ trace' = t
                /\ pc' = AfterRefetch
                /\ UNCHANGED <<metricError, status, body>>
    /\ UNCHANGED <<request, query, reqCancelled, knownClusters, timestamp,
                   params, storeCalls, storeMatches, traces, findErr, located>>

\* GetTrace answers: trace, err = server.spanReader.GetTrace(...)
GetTraceReturn ==
    /\ pc = "getTrace"
    /\ \E t \in SampleTraces, err \in StoreErrs(LastCall.ctx) :
        /\ getErr' = err
        /\ fetched' = IF err # "" THEN NilTrace ELSE t
        /\ IF err # ""
           THEN /\ Fail(500, "TraceError", "failed to find trace ids")
                /\ trace' = NilTrace
           ELSE /\ trace' = t
                /\ pc' = AfterRefetch
                /\ UNCHANGED <<metricError, status, body>>
    /\ UNCHANGED <<request, query, reqCancelled, knownClusters, timestamp,
                   params, storeCalls, storeMatches, traces, findErr, located>>

\* pruneTrace(trace, query.SpanType); ctx.JSON(200, uiconv.FromDomain(trace))
PruneAndRespond ==
    /\ pc = "prune"
    /\ trace' = pruneTrace(trace, query.SpanType)
    /\ status' = 200
    /\ body' = JSONBody(trace')
    /\ pc' = "done"
    /\ UNCHANGED <<request, query, reqCancelled, metricError, knownClusters,
                   timestamp, params, storeCalls, storeMatches, traces, findErr, getErr,
                   located, fetched>>

Next ==
    \/ HandleRequest
    \/ Cancel
    \/ BindQuery
    \/ CheckEmpty
    \/ CheckCluster
    \/ ParseTs
    \/ CallFindTraces
    \/ FindTracesReturn
    \/ CheckLogs
    \/ GetTraceReturn
    \/ PruneAndRespond
    \/ Return

Spec == Init /\ [][Next]_vars

-----------------------------------------------------------------------------
(* Time bucketing over a range of timestamps: the request is at the          *)
(* timestamp parse of findTrace, its cluster already found in the registry. *)

ZoneOffsets == {0, 345 * 60, -(60 * 60)}

TsUniverse ==
    {BadTs} \cup
    {[valid |-> TRUE, local |-> [sec |-> sec, nsec |-> nsec], offset |-> off] :
        sec \in (-MaxSec)..MaxSec, nsec \in {0, 1, Nanos - 1}, off \in ZoneOffsets}

InitBucket ==
    /\ pc = "parseTs"
    /\ \E ts \in TsUniverse :
        query = [Cluster |-> <<"a">>, Resource |-> "pods", Namespace |-> "",
                 Name |-> "foo", Ts |-> ts, SpanType |-> ""]
    /\ request = [bindable |-> TRUE, form |-> query]
    /\ reqCancelled = FALSE
    /\ metricError = ""
    /\ knownClusters = << <<"a">> >>
    /\ timestamp = ZeroTime
    /\ params = NoParams
    /\ storeCalls = <<>>
    /\ storeMatches = <<>>
    /\ traces = <<>>
    /\ findErr = ""
    /\ getErr = ""
    /\ located = NilTrace
    /\ fetched = NilTrace
    /\ trace = NilTrace
    /\ status = 0
    /\ body = NoBody

NextBucket ==
    \/ ParseTs
    \/ CallFindTraces

SpecBucket == InitBucket /\ [][NextBucket]_vars

-----------------------------------------------------------------------------
(* Pruning over all traces of a bounded shape: the request is about to     *)
(* prune its working trace, located or fetched again.                      *)

Spans == [TraceID : {1}, Logs : StringsUpTo(LogUniverse, MaxLogs)]

TraceUniverse == [Spans : StringsUpTo(Spans, MaxSpans)]

InitPrune ==
    /\ pc = "prune"
    /\ \E st \in {"", "audit", "event"} :
        query = [Cluster |-> <<"a">>, Resource |-> "pods", Namespace |-> "",
                 Name |-> "foo", Ts |-> SampleTs, SpanType |-> st]
    /\ request = [bindable |-> TRUE, form |-> query]
    /\ reqCancelled = FALSE
    /\ metricError = ""
    /\ knownClusters = << <<"a">> >>
    /\ timestamp = ParseRFC3339(SampleTs)
    /\ params = TraceQueryParameters("tracing (exclusive)", query, timestamp)
    /\ trace \in TraceUniverse
    /\ located = IF NeedsRefetch(trace) THEN ShallowTrace ELSE trace
    /\ fetched = IF NeedsRefetch(trace) THEN trace ELSE NilTrace
    /\ storeCalls = IF NeedsRefetch(trace)
                    THEN <<FindTracesCall(params), GetTraceCall(RefetchID(located))>>
                    ELSE <<FindTracesCall(params)>>
    /\ storeMatches = <<located>>
    /\ traces = <<located>>
    /\ findErr = ""
    /\ getErr = ""
    /\ status = 0
    /\ body = NoBody

NextPrune ==
    \/ PruneAndRespond
    \/ Return

SpecPrune == InitPrune /\ [][NextPrune]_vars

-----------------------------------------------------------------------------
(* Vocabulary of the claims, stated apart from the code's own loops *)

\* The request's identity has its three required fields.
HasIdentity == query.Cluster # <<>> /\ query.Resource # "" /\ query.Name # ""

UpperChar(c) == IF c = "a" THEN "A" ELSE IF c = "b" THEN "B" ELSE c

\* Two names are the same when letter case is ignored.
SameIgnoringCase(s, t) ==
    Len(s) = Len(t) /\ \A i \in 1..Len(s) : UpperChar(s[i]) = UpperChar(t[i])

InRegistry == \E i \in 1..Len(knownClusters) : SameIgnoringCase(knownClusters[i], query.Cluster)

\* FindTraces has been called and has answered.
FindAnswered == storeCalls # <<>> /\ pc \in {"checkLogs", "getTrace", "prune", "done"}

\* The trace has spans and none of them carries a log.
Shallow(t) == Len(t.Spans) > 0 /\ \A i \in 1..Len(t.Spans) : Len(t.Spans[i].Logs) = 0

HasKey(log, key) == \E j \in 1..Len(log.Fields) : log.Fields[j] = key

\* The spans of t with each log collection cut down to the logs carrying the
\* category, in their order; all of them when no category is asked for.
PrunedSpans(t, category) ==
    [i \in 1..Len(t.Spans) |->
        [TraceID |-> t.Spans[i].TraceID,
         Logs |-> IF category = "" THEN t.Spans[i].Logs
                  ELSE SelectSeq(t.Spans[i].Logs, LAMBDA l : HasKey(l, category))]]

GetTraceCalls == {i \in 1..Len(storeCalls) : storeCalls[i].op = "GetTrace"}

FindTracesCalls == {i \in 1..Len(storeCalls) : storeCalls[i].op = "FindTraces"}

ValidationLabels == {"InvalidParam", "EmptyParam", "InvalidTimestamp"}

-----------------------------------------------------------------------------
(* Claims *)

\* C1: once FindTraces has returned without error, findTrace yields a trace
\* exactly when one trace came back, and then that trace; no trace gives
\* NoTraceMatch with 404; several give MultiTraceMatch with 500 and no trace,
\* never the first of them.
C1_ExactlyOneMatch ==
    (FindAnswered /\ findErr = "") =>
        /\ (located # NilTrace) <=> (Len(traces) = 1)
        /\ Len(traces) = 1 =>
            /\ located = traces[1]
            /\ metricError \notin {"NoTraceMatch", "MultiTraceMatch"}
        /\ Len(traces) = 0 =>
            /\ pc = "done" /\ metricError = "NoTraceMatch" /\ status = 404
        /\ Len(traces) > 1 =>
            /\ pc = "done" /\ metricError = "MultiTraceMatch" /\ status = 500
            /\ body.kind = "error"

C1_Witness ==
    /\ pc = "done" /\ findErr = "" /\ Len(traces) = 2
    /\ metricError = "MultiTraceMatch" /\ located = NilTrace

\* C2 as written: a valid identity with exactly one matching trace in the
\* store always ends in success with a trace document.
C2_AlwaysSuccess ==
    (pc = "done" /\ HasIdentity /\ InRegistry /\ query.Ts.valid
        /\ Len(storeMatches) = 1)
    => (status = 200 /\ body.kind = "json")

\* C2 amended: a valid identity with exactly one matching trace in the store,
\* and no failing store call, ends in success (200, no error label); the
\* document is the matching trace, or the trace fetched again by ID when the
\* matching one has spans and no logs, pruned to the requested span type.
C2_SuccessUnlessStoreFails ==
    (pc = "done" /\ HasIdentity /\ InRegistry /\ query.Ts.valid
        /\ Len(storeMatches) = 1 /\ findErr = "" /\ getErr = "")
    => /\ status = 200
       /\ metricError = ""
       /\ body.kind = "json"
       /\ IF Shallow(storeMatches[1])
          THEN fetched # NilTrace /\ body.doc = PrunedSpans(fetched, query.SpanType)
          ELSE body.doc = PrunedSpans(storeMatches[1], query.SpanType)

C2_Witness ==
    /\ pc = "done" /\ status = 200 /\ Len(storeMatches) = 1
    /\ storeMatches[1] = PartialTrace /\ query.SpanType = "audit"
    /\ body.kind = "json"

\* C3: a request that fails validation (unbindable, a required field empty,
\* ts unparsable) or names an unknown cluster has made no store call.
C3_NoStoreCallBeforeValidation ==
    metricError \in ValidationLabels \cup {"UnknownCluster"} => storeCalls = <<>>

C3_Witness ==
    /\ pc = "done" /\ metricError = "InvalidTimestamp" /\ status = 400
    /\ storeCalls = <<>>

\* C4: a located trace with spans and no logs is fetched again exactly once,
\* by the trace ID of its first span, and the fetched trace is the one pruned
\* and returned; any other located trace is never fetched again and is itself
\* pruned and returned.
C4_RefetchWhenShallow ==
    (located # NilTrace /\ pc \in {"getTrace", "prune", "done"}) =>
        IF Shallow(located)
        THEN /\ Cardinality(GetTraceCalls) = 1
             /\ \A i \in GetTraceCalls : storeCalls[i].arg = located.Spans[1].TraceID
             /\ pc = "prune" => trace = fetched
             /\ (pc = "done" /\ getErr = "") =>
                    body = JSONBody(pruneTrace(fetched, query.SpanType))
        ELSE /\ GetTraceCalls = {}
             /\ pc = "prune" => trace = located
             /\ pc = "done" => body = JSONBody(pruneTrace(located, query.SpanType))

C4_Witness ==
    /\ pc = "done" /\ located = ShallowTrace /\ fetched = FullTrace
    /\ status = 200 /\ Len(storeCalls) = 2

\* C5: with no category the document's log collections are those of the
\* working trace; with a category each span keeps exactly its logs carrying
\* that key, in their order, and the spans stay as many and in the same order.
C5_PruneKeepsMatchingLogs ==
    (pc = "done" /\ status = 200) =>
        LET working == IF fetched # NilTrace THEN fetched ELSE located
        IN  /\ Len(body.doc) = Len(working.Spans)
            /\ body.doc = PrunedSpans(working, query.SpanType)
            /\ trace.Spans = body.doc

C5_Witness ==
    /\ pc = "done" /\ status = 200 /\ query.SpanType = "audit"
    /\ located.Spans = <<[TraceID |-> 1, Logs |-> <<LogBoth, LogEvent>>],
                         [TraceID |-> 1, Logs |-> <<LogAudit, LogBoth>>]>>
    /\ body.doc = <<[TraceID |-> 1, Logs |-> <<LogBoth>>],
                    [TraceID |-> 1, Logs |-> <<LogAudit, LogBoth>>]>>

\* C6: the query window holds the parsed instant (start <= t < end), is
\* exactly 30 minutes long, starts on a multiple of 30 minutes, and bucketing
\* its start again gives the same window.
C6_WindowAligned ==
    params # NoParams =>
        /\ TimeLeq(params.StartTimeMin, timestamp)
        /\ TimeLess(timestamp, params.StartTimeMax)
        /\ params.StartTimeMax.sec - params.StartTimeMin.sec = ThirtyMinutes
        /\ params.StartTimeMax.nsec = params.StartTimeMin.nsec
        /\ params.StartTimeMin.nsec = 0
        /\ params.StartTimeMin.sec % ThirtyMinutes = 0
        /\ Truncate(params.StartTimeMin, ThirtyMinutes) = params.StartTimeMin
        /\ AddTime(Truncate(params.StartTimeMin, ThirtyMinutes), ThirtyMinutes, 0)
              = params.StartTimeMax

C6_Witness ==
    /\ pc = "findTraces"
    /\ timestamp.sec < 0 /\ timestamp.nsec = 1
    /\ timestamp.sec % ThirtyMinutes # 0
    /\ query.Ts.offset = 345 * 60

\* C7: when the caller's request is cancelled while a store call is in
\* flight, that call's context is done, so that the call is abandoned.
C7_CancellationReachesStore ==
    (reqCancelled /\ pc \in {"findTraces", "getTrace"}) => CtxDone(LastCall.ctx)

\* C8: an error ends the request with an error body and no trace document:
\* 400 for a validation failure, 404 for an unknown cluster or no match, 500
\* for several matches or a store failure; a trace document goes out only
\* with status 200 and no error label.
C8_FailuresCarryNoTrace ==
    /\ metricError # "" =>
        /\ pc = "done"
        /\ body.kind = "error"
        /\ status = CASE metricError \in ValidationLabels -> 400
                      [] metricError \in {"UnknownCluster", "NoTraceMatch"} -> 404
                      [] metricError \in {"MultiTraceMatch", "TraceError"} -> 500
                      [] OTHER -> -1
    /\ body.kind = "json" => (status = 200 /\ metricError = "" /\ pc = "done")
    /\ pc = "done" => body.kind \in {"json", "error"}
    /\ pc # "done" => (body = NoBody /\ status = 0)

C8_Witness ==
    /\ pc = "done" /\ metricError = "TraceError" /\ getErr # ""
    /\ located # NilTrace /\ status = 500 /\ body.kind = "error"

\* C9: the store sees at most two calls per request, FindTraces and then at
\* most one GetTrace, the second only after the first returned exactly one
\* trace without error; after a failed call no further call is made.
C9_AtMostTwoStoreCalls ==
    /\ Len(storeCalls) <= 2
    /\ Cardinality(FindTracesCalls) <= 1
    /\ Cardinality(GetTraceCalls) <= 1
    /\ storeCalls # <<>> => storeCalls[1].op = "FindTraces"
    /\ Len(storeCalls) = 2 =>
        /\ storeCalls[2].op = "GetTrace"
        /\ findErr = "" /\ Len(traces) = 1
        /\ pc \in {"getTrace", "prune", "done"}
    /\ findErr # "" => (Len(storeCalls) = 1 /\ pc = "done")
    /\ getErr # "" => (Len(storeCalls) = 2 /\ pc = "done")

C9_Witness ==
    /\ pc = "done" /\ status = 200 /\ Len(storeCalls) = 2
    /\ fetched # NilTrace /\ Shallow(fetched)

\* C10: with the three required fields present, the request ends in
\* UnknownCluster exactly when no registry entry equals the cluster with
\* letter case ignored, whatever ts is; an accepted cluster goes into the
\* query as the operation name in the caller's own casing.
C10_ClusterCaseInsensitive ==
    (HasIdentity /\ pc \notin {"idle", "bind", "checkEmpty", "checkCluster"}) =>
        /\ (metricError = "UnknownCluster") <=> ~InRegistry
        /\ metricError = "InvalidTimestamp" => InRegistry
        /\ params # NoParams =>
            /\ params.OperationName = query.Cluster
            /\ params.OperationName = request.form.Cluster

C10_Witness ==
    /\ pc = "findTraces"
    /\ knownClusters = << <<"A", "b">> >>
    /\ query.Cluster = <<"a", "b">>
    /\ params.OperationName = <<"a", "b">>

====
